---- MODULE Spec2Model ----
(***************************************************************************)
(* A model of package restclient (astropay/go-tools): the pool registry,   *)
(* the per-pool LRU cache with max-age expiry, the mock registry and the   *)
(* request executor performRequest.                                        *)
(*                                                                         *)
(* Strings that the code inspects are sequences of tokens: a URL such as   *)
(* "/users/42" is <<"/users/", "42">>, a pattern such as "/users/.*" is    *)
(* <<"/users/", ".*">>, a header value such as "max-age=1" is              *)
(* <<"max-age", "=", "1">>.  Matching, containment, splitting and number   *)
(* parsing are computed on the tokens.                                     *)
(***************************************************************************)
EXTENDS Integers, Sequences, FiniteSets, TLC

VARIABLES
    pools,      \* var pools map[string]*rClient: pattern -> rClient
    mocks,      \* var mocks []*mockResponse
    useMock,    \* var useMock bool
    env,        \* os.Getenv("GO_ENVIRONMENT") as read by init()
    now,        \* time.Now(), in whole seconds
    alive,      \* FALSE once a panic has ended the process
    last,       \* the operation that led to this state, and what it returned
    regOrder,   \* history: the keys of pools in the order they were first stored
    good,       \* history: live 200 responses with max-age=N, N > 0, per pool and URL
    tainted,    \* history: <<pool, URL>> whose live GET responses carried freshness
    inflight,   \* per goroutine: how far its AddCustomPool, AddMock or call has got
    recency     \* history: per pool, the cached URLs in the order calls reached them

vars == <<pools, mocks, useMock, env, now, alive, last, regOrder, good, tainted, inflight,
          recency>>

------------------------------------------------------------------------------
(* Bounds of the model *)

MaxTime == 2
MaxMocks == 2

------------------------------------------------------------------------------
(* Program constants *)

DefaultMaxIdleConnectionsPerHost == 100
HttpDefaultMaxIdleConnsPerHost == 2
StatusOK == 200

MethodGet == "GET"
MethodPost == "POST"

------------------------------------------------------------------------------
(* Token strings *)

RECURSIVE MatchHere(_, _)
\* The pattern p matches a prefix of s; ".*" matches any run of tokens.
MatchHere(p, s) ==
    IF p = <<>> THEN TRUE
    ELSE IF Head(p) = ".*"
         THEN \E k \in 0..Len(s) : MatchHere(Tail(p), SubSeq(s, k + 1, Len(s)))
         ELSE s # <<>> /\ Head(s) = Head(p) /\ MatchHere(Tail(p), Tail(s))

\* regexp.MustCompile panics on a pattern that is no regular expression.
ValidPattern(p) == \A i \in 1..Len(p) : p[i] # "("

\* Regexp.MatchString: an unanchored search.
MatchString(p, s) == \E k \in 0..Len(s) : MatchHere(p, SubSeq(s, k + 1, Len(s)))

\* strings.Contains
Contains(s, sub) ==
    \E k \in 0..(Len(s) - Len(sub)) : SubSeq(s, k + 1, k + Len(sub)) = sub

\* strings.ToLower, on the tokens in use
ToLower(t) == IF t = "Max-Age" THEN "max-age" ELSE t

\* strings.Split(v, "=")[1]: the tokens between the first "=" and the next one
\* (or the end).  Only called when v holds an "=".
SplitSecond(v) ==
    LET first == CHOOSE i \in 1..Len(v) : v[i] = "=" /\ \A j \in 1..(i - 1) : v[j] # "="
        rest == SubSeq(v, first + 1, Len(v))
        stop == IF \E i \in 1..Len(rest) : rest[i] = "="
                THEN (CHOOSE i \in 1..Len(rest) :
                          rest[i] = "=" /\ \A j \in 1..(i - 1) : rest[j] # "=") - 1
                ELSE Len(rest)
    IN SubSeq(rest, 1, stop)

Digits == ("0" :> 0) @@ ("1" :> 1) @@ ("2" :> 2) @@ ("-1" :> (0 - 1))

\* strconv.Atoi: 0 (and an error, which the caller drops) unless the text is
\* one number.
Atoi(text) ==
    IF Len(text) = 1 /\ text[1] \in DOMAIN Digits THEN Digits[text[1]] ELSE 0

------------------------------------------------------------------------------
(* Values *)

NoHeaders == <<>>          \* a nil or empty map[string][]string

Response(body, code, headers, cached, staled) ==
    [Body |-> body, Code |-> code, Headers |-> headers,
     CachedContent |-> cached, Staled |-> staled]

NilResponse == Response("", 0 - 1, NoHeaders, FALSE, FALSE)   \* a nil *Response

\* getHeadersMap: a later header with the same key overwrites an earlier one.
RECURSIVE getHeadersMap(_)
getHeadersMap(headers) ==
    IF headers = <<>> THEN <<>>
    ELSE LET init == getHeadersMap(SubSeq(headers, 1, Len(headers) - 1))
             h == headers[Len(headers)]
         IN [k \in DOMAIN init \cup {h.Key} |-> IF k = h.Key THEN h.Value ELSE init[k]]

------------------------------------------------------------------------------
(* The cache of a pool: github.com/hashicorp/golang-lru, as the code uses it.  *)
(* items holds the entries from the most recently used to the least.           *)

NoCache == [has |-> FALSE, size |-> 0, items |-> <<>>]      \* rclient.cache == nil

lruNew(size) == [has |-> TRUE, size |-> size, items |-> <<>>]

lruKeys(cache) == {cache.items[i].key : i \in 1..Len(cache.items)}

lruContains(cache, key) == key \in lruKeys(cache)

lruIndex(cache, key) == CHOOSE i \in 1..Len(cache.items) : cache.items[i].key = key

lruPeek(cache, key) == cache.items[lruIndex(cache, key)]

lruWithout(cache, key) ==
    LET i == lruIndex(cache, key)
    IN SubSeq(cache.items, 1, i - 1) \o SubSeq(cache.items, i + 1, Len(cache.items))

\* Mutant: Cache.Get leaves the order alone, as Cache.Peek does.
lruTouchNone(cache, key) == cache

\* Cache.Get: the entry becomes the most recently used.
lruTouch(cache, key) ==
    [cache EXCEPT !.items = <<lruPeek(cache, key)>> \o lruWithout(cache, key)]

\* Mutant: a new key is put in front and nothing leaves a full cache.
lruAddNoEvict(cache, item) ==
    IF lruContains(cache, item.key)
    THEN [cache EXCEPT !.items = <<item>> \o lruWithout(cache, item.key)]
    ELSE [cache EXCEPT !.items = <<item>> \o cache.items]

\* Mutant: a known key is not overwritten; a second entry is put in front.
lruAddTwice(cache, item) ==
    LET all == <<item>> \o cache.items
    IN [cache EXCEPT !.items =
           IF Len(all) > cache.size /\ ~lruContains(cache, item.key)
           THEN SubSeq(all, 1, cache.size) ELSE all]

\* Cache.Add: a known key is overwritten and becomes the most recently used; a
\* new key is put in front and the least recently used entry leaves a full cache.
lruAdd(cache, item) ==
    IF lruContains(cache, item.key)
    THEN [cache EXCEPT !.items = <<item>> \o lruWithout(cache, item.key)]
    ELSE LET all == <<item>> \o cache.items
         IN [cache EXCEPT !.items =
                IF Len(all) > cache.size THEN SubSeq(all, 1, cache.size) ELSE all]

------------------------------------------------------------------------------
(* Pools *)

DefaultKey == <<"default">>

\* The rClient that AddCustomPool builds from a PoolConfig.
NewPool(config) ==
    [baseURL |-> config.BaseURL,
     maxIdle |-> IF config.MaxIdleConnsPerHost > 0 THEN config.MaxIdleConnsPerHost
                 ELSE HttpDefaultMaxIdleConnsPerHost,
     timeout |-> config.Timeout,
     proxy |-> config.Proxy,
     cache |-> IF config.CacheElements > 0 THEN lruNew(config.CacheElements) ELSE NoCache,
     stale |-> config.CacheElements > 0 /\ config.CacheState]

\* The rClient that initDefaultPool builds.
DefaultPool ==
    [baseURL |-> <<>>, maxIdle |-> DefaultMaxIdleConnectionsPerHost, timeout |-> 0,
     proxy |-> <<>>, cache |-> NoCache, stale |-> FALSE]

\* What getPool(callURL) can do.  Go ranges over the map pools in an order that
\* is not specified: any matching pattern may be reached first, and so may a
\* pattern on which regexp.MustCompile panics.  Without a match (and without a
\* panic) the pool stored under "default" is returned, created if there is none.
getPool(callURL) ==
    LET matching == {p \in DOMAIN pools : ValidPattern(p) /\ MatchString(p, callURL)}
        invalid == {p \in DOMAIN pools : ~ValidPattern(p)}
    IN {[t |-> "pool", key |-> p] : p \in matching}
       \cup (IF invalid # {} THEN {[t |-> "panic", key |-> <<>>]} ELSE {})
       \cup (IF matching = {} /\ invalid = {}
             THEN {[t |-> "pool", key |-> DefaultKey]} ELSE {})

\* pools after getPool returned the pool under key.
poolsAfterGet(key) ==
    IF key \in DOMAIN pools THEN pools ELSE pools @@ (key :> DefaultPool)

------------------------------------------------------------------------------
(* Mocks *)

\* Mutant: two empty maps count as different (the nil checks in the wrong order).
sameHeadersEmpty(h1, h2) ==
    /\ DOMAIN h1 # {} /\ DOMAIN h2 # {}
    /\ Cardinality(DOMAIN h1) = Cardinality(DOMAIN h2)
    /\ \A key \in DOMAIN h1 : key \in DOMAIN h2 /\ h2[key] = h1[key]

\* Mutant: the values are not compared.
sameHeadersKeysOnly(h1, h2) ==
    /\ Cardinality(DOMAIN h1) = Cardinality(DOMAIN h2)
    /\ \A key \in DOMAIN h1 : key \in DOMAIN h2

\* sameHeaders: both maps hold the same keys with the same values.
sameHeaders(h1, h2) ==
    /\ Cardinality(DOMAIN h1) = Cardinality(DOMAIN h2)
    /\ \A key \in DOMAIN h1 : key \in DOMAIN h2 /\ h2[key] = h1[key]

mockMatches(mock, method, callURL, headers, body) ==
    /\ mock.URL = callURL
    /\ mock.Method = method
    /\ sameHeaders(headers, mock.Headers)
    /\ body = mock.Body

\* Mutant: the last mock that matches is returned.
searchMockCallLast(method, callURL, headers, body) ==
    LET hits == {i \in 1..Len(mocks) : mockMatches(mocks[i], method, callURL, headers, body)}
    IN IF hits = {} THEN 0 ELSE CHOOSE i \in hits : \A j \in hits : i >= j

\* searchMockCall: the index in mocks of the first mock that matches, 0 for nil.
searchMockCall(method, callURL, headers, body) ==
    LET hits == {i \in 1..Len(mocks) : mockMatches(mocks[i], method, callURL, headers, body)}
    IN IF hits = {} THEN 0 ELSE CHOOSE i \in hits : \A j \in hits : i <= j

------------------------------------------------------------------------------
(* The cache path of a call *)

\* getMaxAge: as soon as one value holds "max-age", the number is read from the
\* FIRST value, after its first "=".  Indexing [1] panics when that value holds
\* no "="; a text strconv.Atoi rejects counts as 0.
getMaxAge(cacheControlValues) ==
    IF \E i \in 1..Len(cacheControlValues) :
           \E j \in 1..Len(cacheControlValues[i]) :
               ToLower(cacheControlValues[i][j]) = "max-age"
    THEN IF \E j \in 1..Len(cacheControlValues[1]) : cacheControlValues[1][j] = "="
         THEN [panic |-> FALSE, age |-> Atoi(SplitSecond(cacheControlValues[1]))]
         ELSE [panic |-> TRUE, age |-> 0]
    ELSE [panic |-> FALSE, age |-> 0]

\* Mutant: an entry counts as expired one second early.
getResponseFromCacheEarly(rclient, callURL) ==
    IF lruContains(rclient.cache, callURL)
    THEN LET cacheElement == lruPeek(rclient.cache, callURL)
             touched == lruTouch(rclient.cache, callURL)
         IN IF now + 1 < cacheElement.Expires
            THEN [found |-> TRUE, cache |-> touched,
                  resp |-> Response(cacheElement.Content, 200, cacheElement.Headers, TRUE, FALSE)]
            ELSE IF rclient.stale
                 THEN [found |-> TRUE, cache |-> touched,
                       resp |-> Response(cacheElement.Content, 200, cacheElement.Headers, TRUE, TRUE)]
                 ELSE [found |-> FALSE, cache |-> touched, resp |-> NilResponse]
    ELSE [found |-> FALSE, cache |-> rclient.cache, resp |-> NilResponse]

\* Mutant: an expired entry is never kept for stale serving.
getResponseFromCacheNoStale(rclient, callURL) ==
    IF lruContains(rclient.cache, callURL)
    THEN LET cacheElement == lruPeek(rclient.cache, callURL)
             touched == lruTouch(rclient.cache, callURL)
         IN IF now < cacheElement.Expires
            THEN [found |-> TRUE, cache |-> touched,
                  resp |-> Response(cacheElement.Content, 200, cacheElement.Headers, TRUE, FALSE)]
            ELSE [found |-> FALSE, cache |-> touched, resp |-> NilResponse]
    ELSE [found |-> FALSE, cache |-> rclient.cache, resp |-> NilResponse]

\* Mutant: the two flag values of the fresh and the expired result are swapped.
getResponseFromCacheFlags(rclient, callURL) ==
    IF lruContains(rclient.cache, callURL)
    THEN LET cacheElement == lruPeek(rclient.cache, callURL)
             touched == lruTouch(rclient.cache, callURL)
         IN IF now < cacheElement.Expires
            THEN [found |-> TRUE, cache |-> touched,
                  resp |-> Response(cacheElement.Content, 200, cacheElement.Headers, TRUE, TRUE)]
            ELSE IF rclient.stale
                 THEN [found |-> TRUE, cache |-> touched,
                       resp |-> Response(cacheElement.Content, 200, cacheElement.Headers, TRUE, FALSE)]
                 ELSE [found |-> FALSE, cache |-> touched, resp |-> NilResponse]
    ELSE [found |-> FALSE, cache |-> rclient.cache, resp |-> NilResponse]

\* Mutant: an expired entry is handed out with the stale flag alone.
getResponseFromCacheStaleOnly(rclient, callURL) ==
    IF lruContains(rclient.cache, callURL)
    THEN LET cacheElement == lruPeek(rclient.cache, callURL)
             touched == lruTouch(rclient.cache, callURL)
         IN IF now < cacheElement.Expires
            THEN [found |-> TRUE, cache |-> touched,
                  resp |-> Response(cacheElement.Content, 200, cacheElement.Headers, TRUE, FALSE)]
            ELSE IF rclient.stale
                 THEN [found |-> TRUE, cache |-> touched,
                       resp |-> Response(cacheElement.Content, 200, cacheElement.Headers, FALSE, TRUE)]
                 ELSE [found |-> FALSE, cache |-> touched, resp |-> NilResponse]
    ELSE [found |-> FALSE, cache |-> rclient.cache, resp |-> NilResponse]

\* getResponseFromCache: found is FALSE for a nil result; cache is the cache
\* after the lookup (Cache.Get moves the entry to the front, expired or not).
getResponseFromCache(rclient, callURL) ==
    IF lruContains(rclient.cache, callURL)
    THEN LET cacheElement == lruPeek(rclient.cache, callURL)
             touched == lruTouch(rclient.cache, callURL)
         IN IF now < cacheElement.Expires
            THEN [found |-> TRUE, cache |-> touched,
                  resp |-> Response(cacheElement.Content, 200, cacheElement.Headers, TRUE, FALSE)]
            ELSE IF rclient.stale
                 THEN [found |-> TRUE, cache |-> touched,
                       resp |-> Response(cacheElement.Content, 200, cacheElement.Headers, TRUE, TRUE)]
                 ELSE [found |-> FALSE, cache |-> touched, resp |-> NilResponse]
    ELSE [found |-> FALSE, cache |-> rclient.cache, resp |-> NilResponse]

\* Mutant: max-age=0 is admitted too (>= for >).
setResponseInCacheZero(cache, response, callURL) ==
    IF "Cache-Control" \in DOMAIN response.Headers
    THEN LET cacheControlValue == getMaxAge(response.Headers["Cache-Control"])
         IN IF cacheControlValue.panic
            THEN [panic |-> TRUE, cache |-> cache]
            ELSE IF cacheControlValue.age >= 0
                 THEN [panic |-> FALSE,
                       cache |-> lruAdd(cache, [key |-> callURL,
                                                Content |-> response.Body,
                                                Headers |-> response.Headers,
                                                Expires |-> now + cacheControlValue.age])]
                 ELSE [panic |-> FALSE, cache |-> cache]
    ELSE [panic |-> FALSE, cache |-> cache]

\* setResponseInCache, on the cache of the pool.
setResponseInCache(cache, response, callURL) ==
    IF "Cache-Control" \in DOMAIN response.Headers
    THEN LET cacheControlValue == getMaxAge(response.Headers["Cache-Control"])
         IN IF cacheControlValue.panic
            THEN [panic |-> TRUE, cache |-> cache]
            ELSE IF cacheControlValue.age > 0
                 THEN [panic |-> FALSE,
                       cache |-> lruAdd(cache, [key |-> callURL,
                                                Content |-> response.Body,
                                                Headers |-> response.Headers,
                                                Expires |-> now + cacheControlValue.age])]
                 ELSE [panic |-> FALSE, cache |-> cache]
    ELSE [panic |-> FALSE, cache |-> cache]

------------------------------------------------------------------------------
(* The network, as a call sees it *)

\* What client.Do and ioutil.ReadAll can come back with:
\*   ok        a response whose body was read
\*   error     no response: connection failure or timeout
\*   redirect  CheckRedirect stopped a redirect: the 3xx response and the sentinel
\*   readerr   a response whose body could not be read
NoNet == [kind |-> "none", code |-> 0, body |-> "", headers |-> NoHeaders]

\* Mutant: a status other than 200 is reported as an error.
networkResultStatusError(net) ==
    CASE net.kind = "error" ->
            [resp |-> Response("", 0, NoHeaders, FALSE, FALSE), err |-> "transport"]
      [] net.kind = "redirect" ->
            [resp |-> Response("", net.code, net.headers, FALSE, FALSE), err |-> "nil"]
      [] net.kind = "readerr" ->
            [resp |-> Response("", net.code, NoHeaders, FALSE, FALSE), err |-> "read"]
      [] OTHER ->
            [resp |-> Response(net.body, net.code, net.headers, FALSE, FALSE),
             err |-> IF net.code = 200 THEN "nil" ELSE "status"]

\* Mutant: the error of a failed connection is cleared, as the redirect's is.
networkResultLostError(net) ==
    CASE net.kind = "error" ->
            [resp |-> Response("", 0, NoHeaders, FALSE, FALSE), err |-> "nil"]
      [] net.kind = "redirect" ->
            [resp |-> Response("", net.code, net.headers, FALSE, FALSE), err |-> "nil"]
      [] net.kind = "readerr" ->
            [resp |-> Response("", net.code, NoHeaders, FALSE, FALSE), err |-> "read"]
      [] OTHER ->
            [resp |-> Response(net.body, net.code, net.headers, FALSE, FALSE), err |-> "nil"]

\* Mutant: the redirect sentinel is not recognised and counts as a failure.
networkResultRedirectAsFailure(net) ==
    CASE net.kind \in {"error", "redirect"} ->
            [resp |-> Response("", 0, NoHeaders, FALSE, FALSE), err |-> "transport"]
      [] net.kind = "readerr" ->
            [resp |-> Response("", net.code, NoHeaders, FALSE, FALSE), err |-> "read"]
      [] OTHER ->
            [resp |-> Response(net.body, net.code, net.headers, FALSE, FALSE), err |-> "nil"]

\* rcResponse and error after the network attempt.
networkResult(net) ==
    CASE net.kind = "error" ->
            [resp |-> Response("", 0, NoHeaders, FALSE, FALSE), err |-> "transport"]
      [] net.kind = "redirect" ->
            [resp |-> Response("", net.code, net.headers, FALSE, FALSE), err |-> "nil"]
      [] net.kind = "readerr" ->
            [resp |-> Response("", net.code, NoHeaders, FALSE, FALSE), err |-> "read"]
      [] OTHER ->
            [resp |-> Response(net.body, net.code, net.headers, FALSE, FALSE), err |-> "nil"]

\* http.NewRequest fails on a URL that url.Parse rejects.
validURL(callURL) == \A i \in 1..Len(callURL) : callURL[i] # "%zz"

Returned(resp, err, cache, netCalls, mocked) ==
    [panic |-> FALSE, hasResp |-> TRUE, resp |-> resp, err |-> err, cache |-> cache,
     netCalls |-> netCalls, mocked |-> mocked]

\* performRequest after getPool: rclient is the pool, callURL the URL with the
\* base URL in front, net what the network does if it is asked.
performRequest(rclient, method, callURL, body, headers, net) ==
    LET mock == IF useMock THEN searchMockCall(method, callURL, headers, body) ELSE 0
        withCache == method = MethodGet /\ rclient.cache.has
        cachedResponse == IF withCache THEN getResponseFromCache(rclient, callURL)
                          ELSE [found |-> FALSE, cache |-> rclient.cache, resp |-> NilResponse]
        rc == networkResult(net)
    IN IF mock # 0
       THEN Returned(mocks[mock].Response, "nil", rclient.cache, 0, TRUE)
       ELSE IF cachedResponse.found /\ ~cachedResponse.resp.Staled
       THEN Returned(cachedResponse.resp, "nil", cachedResponse.cache, 0, FALSE)
       ELSE IF ~validURL(callURL)
       THEN [panic |-> FALSE, hasResp |-> FALSE, resp |-> NilResponse, err |-> "request",
             cache |-> cachedResponse.cache, netCalls |-> 0, mocked |-> FALSE]
       ELSE IF withCache /\ rc.resp.Code = StatusOK
       THEN LET set == setResponseInCache(cachedResponse.cache, rc.resp, callURL)
            IN IF set.panic
               THEN [panic |-> TRUE, hasResp |-> FALSE, resp |-> NilResponse, err |-> "nil",
                     cache |-> cachedResponse.cache, netCalls |-> 1, mocked |-> FALSE]
               ELSE Returned(rc.resp, rc.err, set.cache, 1, FALSE)
       ELSE IF withCache /\ rclient.stale /\ cachedResponse.found
       THEN Returned(cachedResponse.resp, "nil", cachedResponse.cache, 1, FALSE)
       ELSE Returned(rc.resp, rc.err, cachedResponse.cache, 1, FALSE)

\* The URL performRequest goes on with.
resolvedURL(rclient, callURL) ==
    IF rclient.baseURL # <<>> /\ ~Contains(callURL, rclient.baseURL)
    THEN rclient.baseURL \o callURL
    ELSE callURL

------------------------------------------------------------------------------
(* History: what the claims need to know about the past.  None of it is read *)
(* by the operators above.                                                   *)

\* N when the headers carry exactly Cache-Control: max-age=N, else 0.
PlainMaxAge(headers) ==
    IF /\ "Cache-Control" \in DOMAIN headers
       /\ Len(headers["Cache-Control"]) = 1
       /\ Len(headers["Cache-Control"][1]) = 3
       /\ headers["Cache-Control"][1][1] = "max-age"
       /\ headers["Cache-Control"][1][2] = "="
       /\ headers["Cache-Control"][1][3] \in {"0", "1", "2"}
    THEN CASE headers["Cache-Control"][1][3] = "1" -> 1
           [] headers["Cache-Control"][1][3] = "2" -> 2
           [] OTHER -> 0
    ELSE 0

\* The headers carry no Cache-Control, or exactly max-age=0.
NoFreshness(headers) ==
    \/ "Cache-Control" \notin DOMAIN headers
    \/ headers["Cache-Control"] = << <<"max-age", "=", "0">> >>

\* A registered fixture equals the call in method, URL, header set and body.
FixtureFor(method, url, headers, body) ==
    {i \in 1..Len(mocks) :
        /\ mocks[i].Method = method /\ mocks[i].URL = url
        /\ mocks[i].Headers = headers /\ mocks[i].Body = body}

\* The entry a cache holds for a URL, as a snapshot.
EntryOf(cache, url) ==
    IF \E i \in 1..Len(cache.items) : cache.items[i].key = url
    THEN LET e == cache.items[CHOOSE i \in 1..Len(cache.items) : cache.items[i].key = url]
         IN [present |-> TRUE, Content |-> e.Content, Headers |-> e.Headers, Expires |-> e.Expires]
    ELSE [present |-> FALSE, Content |-> "", Headers |-> NoHeaders, Expires |-> 0]

\* The call gets as far as the network: no fixture answers it, no unexpired
\* entry answers it, and a request can be built for its URL.
ReachesNetwork(rclient, method, url, headers, body) ==
    /\ ~(useMock /\ FixtureFor(method, url, headers, body) # {})
    /\ ~(/\ method = "GET" /\ rclient.cache.has
         /\ EntryOf(rclient.cache, url).present
         /\ now < EntryOf(rclient.cache, url).Expires)
    /\ \A i \in 1..Len(url) : url[i] # "%zz"

Idle == [kind |-> "none"]

\* The process runs and no operation is under way.
Ready == alive /\ last = Idle

goodAfterCall(key, rclient, method, url, net, reaches, cacheAfter) ==
    LET kept == {g \in good :
                    ~(g.pool = key /\ g.url \in lruKeys(rclient.cache) \ lruKeys(cacheAfter))}
    IN IF /\ reaches /\ method = "GET" /\ rclient.cache.has
          /\ net.kind = "ok" /\ net.code = 200 /\ PlainMaxAge(net.headers) > 0
       THEN {g \in kept : ~(g.pool = key /\ g.url = url)}
            \cup {[pool |-> key, url |-> url, body |-> net.body, headers |-> net.headers,
                   until |-> now + PlainMaxAge(net.headers)]}
       ELSE kept

\* A pair is tainted once a live response to a GET through the pool's cache
\* carried a Cache-Control other than max-age=0.
taintedAfterCall(key, rclient, method, url, net, reaches) ==
    IF /\ reaches /\ method = "GET" /\ rclient.cache.has
       /\ net.kind \in {"ok", "redirect", "readerr"} /\ ~NoFreshness(net.headers)
    THEN tainted \cup {<<key, url>>}
    ELSE tainted

\* recency: for each pool, the URLs its cache holds, from the one that a call
\* reached last to the one that was reached longest ago.  A GET that no fixture
\* answers reaches the URL it asks for when the cache holds an entry for it
\* before the call (the lookup) or after it (the admission).
recencyAfterCall(key, rclient, method, url, headers, body, cacheAfter) ==
    LET old == IF key \in DOMAIN recency THEN recency[key] ELSE <<>>
        reached == /\ method = "GET" /\ rclient.cache.has
                   /\ ~(useMock /\ FixtureFor(method, url, headers, body) # {})
                   /\ url \in lruKeys(rclient.cache) \cup lruKeys(cacheAfter)
        moved == IF reached
                 THEN <<url>> \o SelectSeq(old, LAMBDA u : u # url)
                 ELSE old
    IN [p \in DOMAIN recency \cup {key} |->
           IF p = key THEN SelectSeq(moved, LAMBDA u : u \in lruKeys(cacheAfter))
           ELSE recency[p]]

------------------------------------------------------------------------------
(* Goroutines.  The package takes no lock: callers that run AddCustomPool and  *)
(* the verbs on several goroutines reach the map pools at the same time.       *)

Goroutines == {"g1", "g2"}

\* A goroutine that is in neither AddCustomPool nor getPool.  url, pattern,
\* rclient and visited are the locals of the function it runs; key and result
\* are what its last getPool returned; startKeys are the keys the map held when
\* the range began; allowed and raced are history, and so is created: the
\* goroutine has run initDefaultPool, which makes a new rClient.  In AddMock,
\* seen is the value of mocks the goroutine has read and fixture the
\* mockResponse it is adding; added (history) are the fixtures whose AddMock
\* has returned to this goroutine since mocks was last cleared.  In a GET,
\* cachedResponse and rcResponse are the locals of performRequest and out is
\* what it returned; cold, admitted and overlapped are history: the cache did
\* not contain the URL when the GET looked, the GET added an entry, and it
\* added it over an entry that another GET had added since it looked.
IdleRoutine ==
    [pc |-> "idle", url |-> <<>>, pattern |-> <<>>, rclient |-> DefaultPool,
     visited |-> {}, hasResult |-> FALSE, key |-> <<>>, result |-> DefaultPool,
     startKeys |-> {}, allowed |-> {}, raced |-> FALSE, created |-> FALSE,
     seen |-> <<>>, fixture |-> <<>>, added |-> {}, found |-> <<>>,
     cachedResponse |-> [found |-> FALSE, resp |-> NilResponse],
     rcResponse |-> [resp |-> NilResponse, err |-> "nil"],
     out |-> [hasResp |-> FALSE, resp |-> NilResponse, err |-> "nil"],
     cold |-> FALSE, admitted |-> FALSE, overlapped |-> FALSE]

\* The other goroutines that are inside the assignment pools[pattern] = rclient.
writers(g) == {h \in Goroutines \ {g} : inflight[h].pc = "assign"}

\* What can come of an access to the map: without a writer at work, the access
\* goes through; with one, the runtime either notices (fatal error: concurrent
\* map read, iteration or write) or does not.
accessOutcomes(g) == IF writers(g) # {} THEN {"fatal", "through"} ELSE {"through"}

------------------------------------------------------------------------------
(* Operations *)

Init ==
    /\ pools = <<>>
    /\ mocks = <<>>
    /\ env \in {"production", "test"}
    /\ useMock = (env # "production")          \* func init()
    /\ now = 0
    /\ alive = TRUE
    /\ last = Idle
    /\ regOrder = <<>>
    /\ good = {}
    /\ tainted = {}
    /\ inflight = [g \in Goroutines |-> IdleRoutine]
    /\ recency = <<>>

\* Mutant: a pattern registered again keeps the cache it had.
AddCustomPoolKeepCache(pattern, config) ==
    /\ Ready
    /\ pools' = [p \in DOMAIN pools \cup {pattern} |->
                    IF p = pattern
                    THEN IF pattern \in DOMAIN pools /\ pools[pattern].cache.has
                         THEN [NewPool(config) EXCEPT !.cache = pools[pattern].cache]
                         ELSE NewPool(config)
                    ELSE pools[p]]
    /\ regOrder' = IF pattern \in DOMAIN pools THEN regOrder ELSE Append(regOrder, pattern)
    /\ good' = {g \in good : g.pool # pattern}
    /\ tainted' = {t \in tainted : t[1] # pattern}
    /\ last' = [kind |-> "register", pattern |-> pattern, config |-> config,
                prevEntries |-> IF pattern \in DOMAIN pools
                                THEN Len(pools[pattern].cache.items) ELSE 0 - 1,
                prevSize |-> IF pattern \in DOMAIN pools
                             THEN pools[pattern].cache.size ELSE 0 - 1]
    /\ recency' = [p \in DOMAIN pools \cup {pattern} |->
                      IF p = pattern \/ p \notin DOMAIN recency THEN <<>> ELSE recency[p]]
    /\ UNCHANGED <<mocks, useMock, env, now, alive, inflight>>

AddCustomPool(pattern, config) ==
    /\ Ready
    /\ pools' = [p \in DOMAIN pools \cup {pattern} |->
                    IF p = pattern THEN NewPool(config) ELSE pools[p]]
    /\ regOrder' = IF pattern \in DOMAIN pools THEN regOrder ELSE Append(regOrder, pattern)
    /\ good' = {g \in good : g.pool # pattern}
    /\ tainted' = {t \in tainted : t[1] # pattern}
    /\ last' = [kind |-> "register", pattern |-> pattern, config |-> config,
                prevEntries |-> IF pattern \in DOMAIN pools
                                THEN Len(pools[pattern].cache.items) ELSE 0 - 1,
                prevSize |-> IF pattern \in DOMAIN pools
                             THEN pools[pattern].cache.size ELSE 0 - 1]
    /\ recency' = [p \in DOMAIN pools \cup {pattern} |->
                      IF p = pattern \/ p \notin DOMAIN recency THEN <<>> ELSE recency[p]]
    /\ UNCHANGED <<mocks, useMock, env, now, alive, inflight>>

\* One call of the package: Get, Post, ... all run performRequest.
Call(method, callURL, body, headerList, net) ==
    /\ Ready
    /\ \E got \in getPool(callURL) :
          IF got.t = "panic"
          THEN /\ alive' = FALSE
               /\ last' = [kind |-> "panic", in |-> "getPool", rawURL |-> callURL,
                            matched |-> {p \in DOMAIN pools : ValidPattern(p)
                                             /\ MatchString(p, callURL)}]
               /\ UNCHANGED <<pools, mocks, useMock, env, now, regOrder, good, tainted, inflight, recency>>
          ELSE LET pools1 == poolsAfterGet(got.key)
                   rclient == pools1[got.key]
                   url == resolvedURL(rclient, callURL)
                   headers == getHeadersMap(headerList)
                   out == performRequest(rclient, method, url, body, headers, net)
                   reaches == ReachesNetwork(rclient, method, url, headers, body)
               IN /\ pools' = [pools1 EXCEPT ![got.key].cache = out.cache]
                  /\ regOrder' = IF got.key \in DOMAIN pools THEN regOrder
                                 ELSE Append(regOrder, got.key)
                  /\ alive' = ~out.panic
                  /\ good' = goodAfterCall(got.key, rclient, method, url, net, reaches, out.cache)
                  /\ tainted' = taintedAfterCall(got.key, rclient, method, url, net, reaches)
                  /\ last' = IF out.panic
                             THEN [kind |-> "panic", in |-> "getMaxAge", rawURL |-> callURL,
                                   matched |-> {p \in DOMAIN pools : ValidPattern(p)
                                                    /\ MatchString(p, callURL)}]
                             ELSE [kind |-> "call", method |-> method, rawURL |-> callURL,
                                   url |-> url, headerList |-> headerList,
                                   headers |-> headers, body |-> body,
                                   pool |-> got.key,
                                   matched |-> {p \in DOMAIN pools : ValidPattern(p)
                                                    /\ MatchString(p, callURL)},
                                   keysBefore |-> DOMAIN pools,
                                   rclient |-> rclient,
                                   known |-> {g \in good : g.pool = got.key /\ g.url = url},
                                   net |-> IF reaches THEN net ELSE NoNet,
                                   hasResp |-> out.hasResp, resp |-> out.resp,
                                   err |-> out.err, netCalls |-> out.netCalls,
                                   mocked |-> out.mocked]
                  /\ recency' = recencyAfterCall(got.key, rclient, method, url, headers,
                                                  body, out.cache)
                  /\ UNCHANGED <<mocks, useMock, env, now, inflight>>

Get(callURL, headerList, net) == Call(MethodGet, callURL, "", headerList, net)

Post(callURL, body, headerList, net) == Call(MethodPost, callURL, body, headerList, net)

\* Mutant: registering a fixture turns mock mode on.
AddMockEnables(URL, method, body, response, headerList) ==
    /\ Ready
    /\ Len(mocks) < MaxMocks
    /\ mocks' = Append(mocks, [URL |-> URL, Method |-> method, Response |-> response,
                               Headers |-> getHeadersMap(headerList), Body |-> body])
    /\ useMock' = TRUE
    /\ last' = [kind |-> "admin"]
    /\ UNCHANGED <<pools, env, now, alive, regOrder, good, tainted, inflight, recency>>

AddMock(URL, method, body, response, headerList) ==
    /\ Ready
    /\ Len(mocks) < MaxMocks
    /\ mocks' = Append(mocks, [URL |-> URL, Method |-> method, Response |-> response,
                               Headers |-> getHeadersMap(headerList), Body |-> body])
    /\ last' = [kind |-> "admin"]
    /\ UNCHANGED <<pools, useMock, env, now, alive, regOrder, good, tainted, inflight, recency>>

CleanMocks ==
    /\ Ready
    /\ mocks' = <<>>
    /\ last' = [kind |-> "admin"]
    /\ UNCHANGED <<pools, useMock, env, now, alive, regOrder, good, tainted, inflight, recency>>

DisableMock ==
    /\ Ready
    /\ useMock' = FALSE
    /\ last' = [kind |-> "admin"]
    /\ UNCHANGED <<pools, mocks, env, now, alive, regOrder, good, tainted, inflight, recency>>

\* A second passes.
Tick ==
    /\ Ready
    /\ now < MaxTime
    /\ now' = now + 1
    /\ last' = Idle
    /\ UNCHANGED <<pools, mocks, useMock, env, alive, regOrder, good, tainted, inflight, recency>>

\* The operation under way returns to its caller.
Return ==
    /\ alive
    /\ last # Idle
    /\ last' = Idle
    /\ UNCHANGED <<pools, mocks, useMock, env, now, alive, regOrder, good, tainted, inflight, recency>>

\* The response that has just been returned is the Response inside a registered
\* fixture: searchMockCall returns &mock.Response.  0 when it is not.
sharedFixture ==
    IF last.mocked
    THEN searchMockCall(last.method, last.url, last.headers, last.body)
    ELSE 0

\* The Headers map of the response that has just been returned is the Headers
\* map of the cache entry for its URL: getResponseFromCache hands out
\* cacheElement.Headers, and setResponseInCache stores response.Headers.
sharesEntryHeaders ==
    /\ ~last.mocked
    /\ last.method = MethodGet /\ last.rclient.cache.has
    /\ lruContains(pools[last.pool].cache, last.url)
    /\ \/ last.resp.CachedContent
       \/ /\ last.netCalls = 1 /\ last.resp.Code = StatusOK
          /\ "Cache-Control" \in DOMAIN last.resp.Headers
          /\ getMaxAge(last.resp.Headers["Cache-Control"]).age > 0

\* The caller changes the response it has been given: it assigns to Body
\* through the pointer and, when there is a Headers map, sets a header in it.
\* What the response shares with a fixture or a cache entry changes with it.
ModifyResponse ==
    /\ alive
    /\ last.kind = "call" /\ last.hasResp
    /\ last' = [last EXCEPT !.kind = "modified"]
    /\ mocks' = IF sharedFixture # 0
                THEN [mocks EXCEPT ![sharedFixture].Response.Body = "changed"]
                ELSE mocks
    /\ pools' = IF sharesEntryHeaders
                THEN [pools EXCEPT ![last.pool].cache.items =
                        [i \in 1..Len(@) |->
                            IF @[i].key = last.url
                            THEN [@[i] EXCEPT !.Headers =
                                    [h \in DOMAIN @ \cup {"X-Changed"} |->
                                        IF h = "X-Changed" THEN << <<"yes">> >> ELSE @[h]]]
                            ELSE @[i]]]
                ELSE pools
    /\ UNCHANGED <<useMock, env, now, alive, regOrder, good, tainted, inflight, recency>>

------------------------------------------------------------------------------
(* The same operations, step by step, on several goroutines *)

\* AddCustomPool up to the assignment pools[pattern] = rclient, which it enters.
AddCustomPoolBegin(g, pattern, config) ==
    /\ alive /\ last = Idle
    /\ inflight[g].pc = "idle"
    /\ \E outcome \in accessOutcomes(g) :
          /\ alive' = (outcome = "through")
          /\ inflight' =
                [h \in Goroutines |->
                    IF h = g
                    THEN [IdleRoutine EXCEPT
                            !.pc = IF outcome = "through" THEN "assign" ELSE "fatal",
                            !.pattern = pattern,
                            !.rclient = NewPool(config),
                            !.raced = writers(g) # {},
                            !.created = inflight[g].created]
                    ELSE IF inflight[h].pc \in {"range", "initDefault"}
                         THEN [inflight[h] EXCEPT
                                 !.allowed = @ \cup {<<pattern, NewPool(config)>>}]
                         ELSE inflight[h]]
    /\ UNCHANGED <<pools, mocks, useMock, env, now, last, regOrder, good, tainted, recency>>

\* The assignment pools[pattern] = rclient completes and AddCustomPool returns.
AddCustomPoolEnd(g) ==
    /\ alive
    /\ inflight[g].pc = "assign"
    /\ pools' = [p \in DOMAIN pools \cup {inflight[g].pattern} |->
                    IF p = inflight[g].pattern THEN inflight[g].rclient ELSE pools[p]]
    /\ regOrder' = IF inflight[g].pattern \in DOMAIN pools THEN regOrder
                   ELSE Append(regOrder, inflight[g].pattern)
    /\ good' = {e \in good : e.pool # inflight[g].pattern}
    /\ tainted' = {t \in tainted : t[1] # inflight[g].pattern}
    /\ inflight' = [inflight EXCEPT ![g].pc = "idle"]
    /\ UNCHANGED <<mocks, useMock, env, now, alive, last, recency>>

\* getPool starts to range over pools.
getPoolBegin(g, callURL) ==
    /\ alive /\ last = Idle
    /\ inflight[g].pc = "idle"
    /\ inflight' = [inflight EXCEPT ![g] =
                        [IdleRoutine EXCEPT
                            !.pc = "range", !.url = callURL,
                            !.created = inflight[g].created,
                            !.startKeys = DOMAIN pools,
                            !.allowed =
                                {<<p, pools[p]>> : p \in DOMAIN pools}
                                \cup {<<inflight[h].pattern, inflight[h].rclient>> :
                                         h \in writers(g)}]]
    /\ UNCHANGED <<pools, mocks, useMock, env, now, alive, last, regOrder, good, tainted, recency>>

\* One turn of the loop of getPool: the range produces a key it has not produced
\* yet.  A key a writer is assigning may be produced, and then with the old or
\* the new pool.
getPoolNext(g) ==
    /\ alive
    /\ inflight[g].pc = "range"
    /\ \E pattern \in (DOMAIN pools \cup {inflight[h].pattern : h \in writers(g)})
                        \ inflight[g].visited :
       \E outcome \in accessOutcomes(g) :
       \E pool \in (IF pattern \in DOMAIN pools THEN {pools[pattern]} ELSE {})
                     \cup {inflight[h].rclient :
                              h \in {w \in writers(g) : inflight[w].pattern = pattern}} :
          /\ alive' = (outcome = "through" /\ ValidPattern(pattern))
          /\ inflight' = [inflight EXCEPT ![g] =
                IF outcome = "fatal"
                THEN [@ EXCEPT !.pc = "fatal", !.raced = TRUE]
                ELSE IF ~ValidPattern(pattern)
                THEN [@ EXCEPT !.pc = "panic", !.raced = writers(g) # {}]
                ELSE IF MatchString(pattern, inflight[g].url)
                THEN [@ EXCEPT !.pc = "idle", !.hasResult = TRUE, !.key = pattern,
                               !.result = pool, !.raced = writers(g) # {},
                               !.visited = {}, !.startKeys = {}]
                ELSE [@ EXCEPT !.visited = @ \cup {pattern}, !.raced = writers(g) # {}]]
    /\ UNCHANGED <<pools, mocks, useMock, env, now, last, regOrder, good, tainted, recency>>

\* The loop of getPool ends without a match (every key that was in the map when
\* the range began has been produced) and pools["default"] is read.
getPoolDefault(g) ==
    /\ alive
    /\ inflight[g].pc = "range"
    /\ inflight[g].startKeys \subseteq inflight[g].visited
    /\ \E outcome \in accessOutcomes(g) :
          /\ alive' = (outcome = "through")
          /\ inflight' = [inflight EXCEPT ![g] =
                IF outcome = "fatal"
                THEN [@ EXCEPT !.pc = "fatal", !.raced = TRUE]
                ELSE IF DefaultKey \in DOMAIN pools
                THEN [@ EXCEPT !.pc = "idle", !.hasResult = TRUE, !.key = DefaultKey,
                               !.result = pools[DefaultKey], !.raced = writers(g) # {}]
                ELSE [@ EXCEPT !.pc = "initDefault", !.raced = writers(g) # {}]]
    /\ UNCHANGED <<pools, mocks, useMock, env, now, last, regOrder, good, tainted, recency>>

\* initDefaultPool, called by getPool: pools["default"] = rclient.
getPoolInitDefault(g) ==
    /\ alive
    /\ inflight[g].pc = "initDefault"
    /\ \E outcome \in accessOutcomes(g) :
          /\ alive' = (outcome = "through")
          /\ pools' = IF outcome = "fatal" THEN pools
                      ELSE [p \in DOMAIN pools \cup {DefaultKey} |->
                               IF p = DefaultKey THEN DefaultPool ELSE pools[p]]
          /\ regOrder' = IF outcome = "fatal" \/ DefaultKey \in DOMAIN pools THEN regOrder
                         ELSE Append(regOrder, DefaultKey)
          /\ inflight' = [inflight EXCEPT ![g] =
                IF outcome = "fatal"
                THEN [@ EXCEPT !.pc = "fatal", !.raced = TRUE]
                ELSE [@ EXCEPT !.pc = "idle", !.hasResult = TRUE, !.key = DefaultKey,
                               !.result = DefaultPool, !.raced = writers(g) # {},
                               !.created = TRUE]]
    /\ UNCHANGED <<mocks, useMock, env, now, last, good, tainted, recency>>

\* A registered fixture, as AddMock builds it.
mockResponseOf(f) ==
    [URL |-> f.URL, Method |-> f.Method, Response |-> f.Response,
     Headers |-> getHeadersMap(f.Headers), Body |-> f.Body]

\* AddMock up to the point where it has read mocks (the test mocks == nil and
\* the argument of append).
AddMockBegin(g, f) ==
    /\ alive /\ last = Idle
    /\ inflight[g].pc = "idle"
    /\ Len(mocks) < MaxMocks
    /\ inflight' = [inflight EXCEPT ![g] =
                        [@ EXCEPT !.pc = "append", !.seen = mocks,
                                  !.fixture = mockResponseOf(f), !.found = <<>>]]
    /\ UNCHANGED <<pools, mocks, useMock, env, now, alive, last, regOrder, good, tainted, recency>>

\* AddMock stores the slice it has built from what it read, and returns.  When
\* another goroutine has appended to the same slice in the meantime, the two
\* appends share a slot of the backing array, and either element can be the one
\* that stays in it.
AddMockEnd(g) ==
    /\ alive
    /\ inflight[g].pc = "append"
    /\ \E stored \in {Append(inflight[g].seen, inflight[g].fixture)}
                      \cup (IF /\ Len(mocks) = Len(inflight[g].seen) + 1
                                /\ SubSeq(mocks, 1, Len(inflight[g].seen)) = inflight[g].seen
                             THEN {mocks} ELSE {}) :
          mocks' = stored
    /\ inflight' = [inflight EXCEPT ![g] =
                        [@ EXCEPT !.pc = "idle", !.seen = <<>>,
                                  !.added = @ \cup {inflight[g].fixture},
                                  !.fixture = <<>>]]
    /\ UNCHANGED <<pools, useMock, env, now, alive, last, regOrder, good, tainted, recency>>

\* CleanMocks on a goroutine: mocks = nil.
CleanMocksOn(g) ==
    /\ alive /\ last = Idle
    /\ inflight[g].pc = "idle"
    /\ mocks' = <<>>
    /\ inflight' = [h \in Goroutines |->
                        [inflight[h] EXCEPT !.added = {},
                                            !.found = IF h = g THEN <<>> ELSE @]]
    /\ UNCHANGED <<pools, useMock, env, now, alive, last, regOrder, good, tainted, recency>>

\* searchMockCall on a goroutine: the range reads mocks once, when it starts.
searchMockCallOn(g, f) ==
    /\ alive /\ last = Idle
    /\ inflight[g].pc = "idle"
    /\ inflight' = [inflight EXCEPT ![g].found =
                        LET i == searchMockCall(f.Method, f.URL, getHeadersMap(f.Headers),
                                                f.Body)
                        IN IF i = 0 THEN <<>> ELSE <<mocks[i].Response>>]
    /\ UNCHANGED <<pools, mocks, useMock, env, now, alive, last, regOrder, good, tainted, recency>>

\* A GET up to the cache: getPool, the base URL and the fixtures, in one step.
\* The goroutine keeps the key of its pool for the pointer rclient.
GetBegin(g, callURL) ==
    /\ alive /\ last = Idle
    /\ inflight[g].pc = "idle"
    /\ \E got \in getPool(callURL) :
          /\ got.t = "pool"
          /\ LET pools1 == poolsAfterGet(got.key)
                 rclient == pools1[got.key]
                 url == resolvedURL(rclient, callURL)
                 mock == IF useMock THEN searchMockCall(MethodGet, url, <<>>, "") ELSE 0
                 begun == [inflight[g] EXCEPT
                              !.url = url, !.key = got.key,
                              !.cachedResponse = IdleRoutine.cachedResponse,
                              !.rcResponse = IdleRoutine.rcResponse,
                              !.out = IdleRoutine.out,
                              !.cold = FALSE, !.admitted = FALSE, !.overlapped = FALSE]
             IN /\ pools' = pools1
                /\ regOrder' = IF got.key \in DOMAIN pools THEN regOrder
                               ELSE Append(regOrder, got.key)
                /\ inflight' = [inflight EXCEPT ![g] =
                      IF mock # 0
                      THEN [begun EXCEPT !.out = [hasResp |-> TRUE,
                                                  resp |-> mocks[mock].Response,
                                                  err |-> "nil"]]
                      ELSE IF rclient.cache.has
                      THEN [begun EXCEPT !.pc = "contains"]
                      ELSE [begun EXCEPT !.pc = "network"]]
    /\ UNCHANGED <<mocks, useMock, env, now, alive, last, good, tainted, recency>>

\* getResponseFromCache, first half: rclient.cache.Contains(callURL).
CacheContains(g) ==
    /\ alive
    /\ inflight[g].pc = "contains"
    /\ inflight' = [inflight EXCEPT ![g] =
          IF lruContains(pools[inflight[g].key].cache, inflight[g].url)
          THEN [@ EXCEPT !.pc = "get"]
          ELSE [@ EXCEPT !.pc = "network", !.cold = TRUE]]
    /\ UNCHANGED <<pools, mocks, useMock, env, now, alive, last, regOrder, good, tainted, recency>>

\* getResponseFromCache, second half: rclient.cache.Get(callURL) and the type
\* assertion element.(*cacheElement), which panics on the nil that Get returns
\* for a key the cache no longer holds.
CacheGet(g) ==
    /\ alive
    /\ inflight[g].pc = "get"
    /\ LET rclient == pools[inflight[g].key]
           url == inflight[g].url
       IN IF ~lruContains(rclient.cache, url)
          THEN /\ alive' = FALSE
               /\ inflight' = [inflight EXCEPT ![g].pc = "nilAssertion"]
               /\ UNCHANGED pools
          ELSE LET r == getResponseFromCache(rclient, url)
               IN /\ alive' = alive
                  /\ pools' = [pools EXCEPT ![inflight[g].key].cache = r.cache]
                  /\ inflight' = [inflight EXCEPT ![g] =
                        IF r.found /\ ~r.resp.Staled
                        THEN [@ EXCEPT !.pc = "idle",
                                       !.out = [hasResp |-> TRUE, resp |-> r.resp,
                                                err |-> "nil"]]
                        ELSE [@ EXCEPT !.pc = "network",
                                       !.cachedResponse = [found |-> r.found,
                                                           resp |-> r.resp]]]
    /\ UNCHANGED <<mocks, useMock, env, now, last, regOrder, good, tainted, recency>>

\* http.NewRequest, client.Do and the reading of the body.
DoRequest(g, net) ==
    /\ alive
    /\ inflight[g].pc = "network"
    /\ inflight' = [inflight EXCEPT ![g] =
          IF ~validURL(inflight[g].url)
          THEN [@ EXCEPT !.pc = "idle",
                         !.out = [hasResp |-> FALSE, resp |-> NilResponse,
                                  err |-> "request"]]
          ELSE [@ EXCEPT !.pc = "admit", !.rcResponse = networkResult(net)]]
    /\ UNCHANGED <<pools, mocks, useMock, env, now, alive, last, regOrder, good, tainted, recency>>

\* The end of performRequest: setResponseInCache after a 200, or the expired
\* entry in place of another status, and the return.
Finish(g) ==
    /\ alive
    /\ inflight[g].pc = "admit"
    /\ LET rclient == pools[inflight[g].key]
           url == inflight[g].url
           rc == inflight[g].rcResponse
           set == setResponseInCache(rclient.cache, rc.resp, url)
       IN IF rclient.cache.has /\ rc.resp.Code = StatusOK
          THEN IF set.panic
               THEN /\ alive' = FALSE
                    /\ inflight' = [inflight EXCEPT ![g].pc = "panic"]
                    /\ UNCHANGED pools
               ELSE /\ alive' = alive
                    /\ pools' = [pools EXCEPT ![inflight[g].key].cache = set.cache]
                    /\ inflight' = [inflight EXCEPT ![g] =
                          [@ EXCEPT !.pc = "idle",
                                    !.out = [hasResp |-> TRUE, resp |-> rc.resp,
                                             err |-> rc.err],
                                    !.admitted = set.cache # rclient.cache,
                                    !.overlapped = /\ inflight[g].cold
                                                   /\ set.cache # rclient.cache
                                                   /\ lruContains(rclient.cache, url)]]
          ELSE /\ alive' = alive
               /\ UNCHANGED pools
               /\ inflight' = [inflight EXCEPT ![g] =
                     [@ EXCEPT !.pc = "idle",
                               !.out = IF /\ rclient.cache.has /\ rclient.stale
                                          /\ inflight[g].cachedResponse.found
                                       THEN [hasResp |-> TRUE,
                                             resp |-> inflight[g].cachedResponse.resp,
                                             err |-> "nil"]
                                       ELSE [hasResp |-> TRUE, resp |-> rc.resp,
                                             err |-> rc.err]]]
    /\ UNCHANGED <<mocks, useMock, env, now, last, regOrder, good, tainted, recency>>

\* AddCustomPool while no goroutine is inside a call.
AddCustomPoolAtRest(pattern, config) ==
    /\ \A g \in Goroutines : inflight[g].pc = "idle"
    /\ AddCustomPool(pattern, config)

------------------------------------------------------------------------------
(* Inputs *)

UsersPattern == <<"/users/", ".*">>
CardsPattern == <<"/cards/", ".*">>
BadPattern == <<"(">>

U1 == <<"http://users.astropay.com">>
U2 == <<"http://cards.astropay.com">>

PoolConfig(base, timeout, elements, state) ==
    [BaseURL |-> base, MaxIdleConnsPerHost |-> 0, Timeout |-> timeout, Proxy |-> <<>>,
     CacheElements |-> elements, CacheState |-> state]

UsersBig == PoolConfig(U1, 0, 2, FALSE)
UsersStale == PoolConfig(<<>>, 1, 1, TRUE)
UsersPlain == PoolConfig(U1, 0, 0, FALSE)
CardsPlain == PoolConfig(U2, 0, 0, TRUE)

urlUser == <<"/users/", "42">>
urlUser7 == <<"/users/", "7">>
urlUserDefault == <<"/users/", "default">>
urlUserBad == <<"/users/", "%zz">>
urlUser9 == <<"/users/", "9">>
urlCard == <<"/cards/", "7">>
urlOther == <<"/other">>

CacheControl(values) == [h \in {"Cache-Control"} |-> values]

Ok(code, body, headers) == [kind |-> "ok", code |-> code, body |-> body, headers |-> headers]

net200Age1 == Ok(200, "b1", CacheControl(<< <<"max-age", "=", "1">> >>))
net200Age2 == Ok(200, "b2", CacheControl(<< <<"max-age", "=", "2">> >>))
net200Age0 == Ok(200, "b1", CacheControl(<< <<"max-age", "=", "0">> >>))
net200Plain == Ok(200, "b2", NoHeaders)
net200AgeFirst == Ok(200, "b1", CacheControl(<< <<"max-age", "=", "2", ",", "public">> >>))
net200AgeSecond == Ok(200, "b1", CacheControl(<< <<"no-cache">>, <<"Max-Age", "=", "2">> >>))
net200AgeLast == Ok(200, "b1", CacheControl(<< <<"public", ",", "max-age", "=", "2">> >>))
net200OtherFirst == Ok(200, "b2", CacheControl(<< <<"s-maxage", "=", "2">>, <<"max-age", "=", "0">> >>))
net200AgeText == Ok(200, "b2", CacheControl(<< <<"max-age", "=", "soon">> >>))
net500 == Ok(500, "error", NoHeaders)
netError == [kind |-> "error", code |-> 0, body |-> "", headers |-> NoHeaders]
netRedirect == [kind |-> "redirect", code |-> 302, body |-> "",
                headers |-> [h \in {"Location"} |-> << <<"/moved">> >>]]
netReadErr == [kind |-> "readerr", code |-> 200, body |-> "",
               headers |-> CacheControl(<< <<"max-age", "=", "1">> >>)]

errorHeader == [Key |-> "Error", Value |-> "500 error"]

userFixture(body, code) ==
    [URL |-> U1 \o urlUser, Method |-> "GET", Body |-> "", Headers |-> <<>>,
     Response |-> Response(body, code, NoHeaders, FALSE, FALSE)]

\* The inputs of Spec: one pattern with two cache configurations.
CacheInputs ==
    [regs |-> {<<UsersPattern, UsersBig>>, <<UsersPattern, UsersStale>>},
     urls |-> {urlUser, urlUser7},
     headers |-> {<<>>},
     bodies |-> {"p"},
     nets |-> {net200Age1, net200Age2, net200Age0, net200Plain, net500, netError,
               netRedirect, netReadErr},
     fixtures |-> {userFixture("m1", 200)}]

\* The inputs of SpecAdmit: the shapes a Cache-Control header comes in, and
\* pools with a cache of one entry and without a cache.
AdmitInputs ==
    [regs |-> {<<UsersPattern, UsersStale>>, <<UsersPattern, UsersPlain>>},
     urls |-> {urlUser, urlUser7},
     headers |-> {<<>>},
     bodies |-> {"p"},
     nets |-> {net200Age1, net200AgeFirst, net200AgeSecond, net200AgeLast,
               net200OtherFirst, net200AgeText, net500},
     fixtures |-> {userFixture("m1", 200)}]

hA1 == [Key |-> "A", Value |-> "1"]
hA2 == [Key |-> "A", Value |-> "2"]
hB1 == [Key |-> "B", Value |-> "1"]

fixture(method, body, headerList, respBody) ==
    [URL |-> urlUser, Method |-> method, Body |-> body, Headers |-> headerList,
     Response |-> Response(respBody, 200, NoHeaders, FALSE, FALSE)]

\* The inputs of SpecMocks: fixtures and calls that differ in method, body and
\* headers, two of the fixtures with the same key and different responses.
MockInputs ==
    [regs |-> {<<UsersPattern, UsersStale>>},
     urls |-> {urlUser},
     headers |-> {<<>>, <<hA1>>, <<hA1, hB1>>, <<hB1, hA1>>, <<hA2, hB1>>},
     bodies |-> {"p", "q"},
     nets |-> {net200Age1, net500},
     fixtures |-> {fixture("GET", "", <<hA1, hB1>>, "m1"),
                   fixture("GET", "", <<hA1, hB1>>, "m2"),
                   fixture("GET", "", <<hA1>>, "m3"),
                   fixture("POST", "p", <<>>, "m4")}]

\* The inputs of SpecConc: one pattern registered with two configurations, a
\* second pattern, a URL that matches and one that does not.
ConcInputs ==
    [regs |-> {<<UsersPattern, UsersPlain>>, <<UsersPattern, UsersBig>>,
               <<CardsPattern, CardsPlain>>},
     urls |-> {urlUser, urlOther}]

\* The inputs of SpecPools: several patterns, no cache.
PoolInputs ==
    [regs |-> {<<UsersPattern, UsersPlain>>, <<CardsPattern, CardsPlain>>,
               <<DefaultKey, CardsPlain>>, <<BadPattern, CardsPlain>>},
     urls |-> {urlUser, urlUserDefault, urlUserBad, urlCard, urlOther},
     headers |-> {<<>>},
     bodies |-> {"p"},
     nets |-> {net200Plain, netError},
     fixtures |-> {userFixture("m1", 200)}]

------------------------------------------------------------------------------
(* Specifications *)

NextOn(in) ==
    \/ \E r \in in.regs : AddCustomPool(r[1], r[2])
    \/ \E u \in in.urls, h \in in.headers, n \in in.nets : Get(u, h, n)
    \/ \E u \in in.urls, b \in in.bodies, h \in in.headers, n \in in.nets : Post(u, b, h, n)
    \/ \E f \in in.fixtures : AddMock(f.URL, f.Method, f.Body, f.Response, f.Headers)
    \/ CleanMocks
    \/ DisableMock
    \/ Tick
    \/ Return

Next == NextOn(CacheInputs)

Spec == Init /\ [][Next]_vars

NextAdmit == NextOn(AdmitInputs)

SpecAdmit == Init /\ [][NextAdmit]_vars

NextMocks == NextOn(MockInputs)

SpecMocks == Init /\ [][NextMocks]_vars

NextConc ==
    \E g \in Goroutines :
        \/ \E r \in ConcInputs.regs : AddCustomPoolBegin(g, r[1], r[2])
        \/ AddCustomPoolEnd(g)
        \/ \E u \in ConcInputs.urls : getPoolBegin(g, u)
        \/ getPoolNext(g)
        \/ getPoolDefault(g)
        \/ getPoolInitDefault(g)

SpecConc == Init /\ [][NextConc]_vars

\* The fixtures of SpecConcMocks: two with different keys.
ConcMockInputs ==
    [fixtures |-> {fixture("GET", "", <<hA1>>, "m3"), fixture("POST", "p", <<>>, "m4")}]

NextConcMocks ==
    \E g \in Goroutines :
        \/ \E f \in ConcMockInputs.fixtures : AddMockBegin(g, f)
        \/ AddMockEnd(g)
        \/ CleanMocksOn(g)
        \/ \E f \in ConcMockInputs.fixtures : searchMockCallOn(g, f)

SpecConcMocks == Init /\ [][NextConcMocks]_vars

\* The inputs of SpecConcCache: one pattern with a cache of one entry and a
\* cache of two, two URLs it matches, responses that are admitted and one that
\* is not.
ConcCacheInputs ==
    [regs |-> {<<UsersPattern, UsersStale>>, <<UsersPattern, UsersBig>>},
     urls |-> {urlUser, urlUser7},
     nets |-> {net200Age1, net200Age2, net500}]

NextConcCache ==
    \/ \E r \in ConcCacheInputs.regs : AddCustomPoolAtRest(r[1], r[2])
    \/ Return
    \/ \E g \in Goroutines :
           \/ \E u \in ConcCacheInputs.urls : GetBegin(g, u)
           \/ CacheContains(g)
           \/ CacheGet(g)
           \/ \E n \in ConcCacheInputs.nets : DoRequest(g, n)
           \/ Finish(g)

SpecConcCache == Init /\ [][NextConcCache]_vars

\* The inputs of SpecLru: a cache of two entries without stale-serving and
\* three URLs.
LruInputs ==
    [regs |-> {<<UsersPattern, UsersBig>>},
     urls |-> {urlUser, urlUser7, urlUser9},
     headers |-> {<<>>},
     bodies |-> {"p"},
     nets |-> {net200Age1, net500},
     fixtures |-> {userFixture("m1", 200)}]

NextLru == NextOn(LruInputs)

SpecLru == Init /\ [][NextLru]_vars

\* The inputs of SpecShared: a fixture and a cache entry for the same URL.
SharedInputs ==
    [regs |-> {<<UsersPattern, UsersStale>>},
     urls |-> {urlUser},
     headers |-> {<<>>},
     bodies |-> {"p"},
     nets |-> {net200Age1, net500},
     fixtures |-> {fixture("GET", "", <<>>, "m1")}]

NextShared == NextOn(SharedInputs) \/ ModifyResponse

SpecShared == Init /\ [][NextShared]_vars

NextPools == NextOn(PoolInputs)

SpecPools == Init /\ [][NextPools]_vars

------------------------------------------------------------------------------
(* Claims.  last describes the call that has just returned: its inputs, the   *)
(* pool it resolved to as that pool was before the call (last.rclient), and   *)
(* what it returned.                                                          *)

\* A registered fixture answers the call that has just returned.
lastFixtures == FixtureFor(last.method, last.url, last.headers, last.body)

lastMockApplies == useMock /\ lastFixtures # {}

\* The entry the pool held for the call's URL before the call.
lastEntry == EntryOf(last.rclient.cache, last.url)

lastIsGet == last.kind = "call" /\ last.method = "GET"

\* C1: after a live 200 response with Cache-Control: max-age=N, N > 0, to a GET
\* through a pool with a cache, every GET on the same resolved URL through the
\* same pool made less than N seconds later (entry not evicted, pool not
\* registered again, no matching mock) returns the stored body and headers with
\* status 200, served-from-cache set, stale clear, and makes no network call.
C1_FreshEntryServed ==
    (lastIsGet /\ ~lastMockApplies) =>
        \A g \in last.known :
            now < g.until =>
                /\ last.hasResp
                /\ last.resp = Response(g.body, 200, g.headers, TRUE, FALSE)
                /\ last.netCalls = 0
                /\ last.err = "nil"

\* C1 witness: a GET answered from an entry admitted with max-age=2 one second ago.
C1_Witness ==
    /\ lastIsGet
    /\ \E g \in last.known : g.until - now = 1 /\ PlainMaxAge(g.headers) = 2
    /\ last.resp.CachedContent
    /\ last.netCalls = 0

\* C2: a GET through a pool with stale-serving that holds an expired entry for
\* the URL, and whose network attempt ends with a status other than 200 (0 for
\* a transport failure), returns the expired entry's body and headers with
\* served-from-cache and served-stale set, after that one network attempt.
C2_StaleServed ==
    (/\ lastIsGet /\ last.rclient.stale
     /\ lastEntry.present /\ lastEntry.Expires <= now
     /\ last.net.kind # "none" /\ last.net.code # 200)
    => /\ last.hasResp
       /\ last.resp.Body = lastEntry.Content
       /\ last.resp.Headers = lastEntry.Headers
       /\ last.resp.CachedContent /\ last.resp.Staled
       /\ last.netCalls = 1

\* C2 witness: an expired entry is served in place of a 500 response.
C2_Witness ==
    /\ lastIsGet /\ last.rclient.stale
    /\ lastEntry.present /\ lastEntry.Expires <= now
    /\ last.net = net500
    /\ last.resp.Staled /\ last.resp.Body = lastEntry.Content

\* C3: a GET whose upstream answers with a status other than 200, through a
\* pool without stale-serving or without an entry for the URL, returns the
\* live response: that status, body and headers, both flags clear, a nil error.
C3_LiveFailureReturned ==
    (/\ lastIsGet /\ last.net.kind = "ok" /\ last.net.code # 200
     /\ (~last.rclient.stale \/ ~lastEntry.present))
    => /\ last.hasResp
       /\ last.resp = Response(last.net.body, last.net.code, last.net.headers, FALSE, FALSE)
       /\ last.err = "nil"

\* C3 witness: stale-serving is off, the entry has expired, the upstream says 500.
C3_Witness ==
    /\ lastIsGet /\ ~last.rclient.stale /\ last.rclient.cache.has
    /\ lastEntry.present /\ lastEntry.Expires <= now
    /\ last.net = net500
    /\ last.resp.Code = 500 /\ ~last.resp.CachedContent

\* C4: while every live response to a GET on a URL through a pool's cache, from
\* the pool's registration on, carried max-age=0 or no Cache-Control, no GET on
\* that URL through that pool that the pool answers (not a mock fixture) has
\* served-from-cache set.
C4_NothingCachedWithoutMaxAge ==
    (/\ lastIsGet /\ ~lastMockApplies /\ last.hasResp
     /\ <<last.pool, last.url>> \notin tainted)
    => ~last.resp.CachedContent /\ ~last.resp.Staled

\* C4 witness: a GET answered live with max-age=0 through a pool whose cache
\* holds another URL, and that still has no entry for this one.
C4_Witness ==
    /\ lastIsGet /\ last.rclient.cache.has
    /\ last.net = net200Age0
    /\ <<last.pool, last.url>> \notin tainted
    /\ Len(last.rclient.cache.items) > 0
    /\ ~lruContains(pools[last.pool].cache, last.url)
    /\ ~last.resp.CachedContent

\* C5: in mock mode, a call equal to a registered fixture in method, resolved
\* URL, header set and body returns the canned response of the first such
\* fixture with a nil error, makes no network call and leaves the pool's cache
\* as it was, entries and recency order.
C5_MockAnswers ==
    (last.kind = "call" /\ lastMockApplies)
    => /\ last.hasResp
       /\ last.resp = mocks[CHOOSE i \in lastFixtures : \A j \in lastFixtures : i <= j].Response
       /\ last.err = "nil"
       /\ last.netCalls = 0
       /\ pools[last.pool].cache = last.rclient.cache

\* C5 witness: a mocked GET on the least recently used of two cached URLs.
C5_Witness ==
    /\ last.kind = "call" /\ lastMockApplies /\ last.mocked
    /\ Len(last.rclient.cache.items) = 2
    /\ last.rclient.cache.items[2].key = last.url

\* C6: in one call, a matching mock wins over an unexpired entry for the same
\* URL; an unexpired entry is returned without a network attempt; and a
\* response the executor marks served-stale comes after exactly one network
\* attempt of that call.
C6_StepOrder ==
    last.kind = "call" =>
        /\ (lastMockApplies /\ lastEntry.present /\ now < lastEntry.Expires)
              => last.mocked /\ last.netCalls = 0
        /\ (~lastMockApplies /\ lastIsGet /\ last.rclient.cache.has
              /\ lastEntry.present /\ now < lastEntry.Expires)
              => /\ last.netCalls = 0
                 /\ last.resp.CachedContent /\ ~last.resp.Staled
                 /\ last.resp.Body = lastEntry.Content
        /\ (~last.mocked /\ last.hasResp /\ last.resp.Staled) => last.netCalls = 1

\* C6 witness: a mock answers a GET for which the pool holds an unexpired entry.
C6_Witness ==
    /\ lastIsGet /\ last.mocked
    /\ lastEntry.present /\ now < lastEntry.Expires
    /\ last.resp.Body = "m1"

\* The first pattern of order, the patterns in the order they were registered,
\* that matches s.
RECURSIVE firstMatching(_, _)
firstMatching(order, s) ==
    IF order = <<>> THEN <<>>
    ELSE IF ValidPattern(Head(order)) /\ MatchString(Head(order), s)
         THEN Head(order)
         ELSE firstMatching(Tail(order), s)

\* C7: when the URL of a call matches the patterns of two or more registered
\* pools, the call resolves to the pool whose pattern was registered first (and
\* so to the same pool every time, the registry being the same).
C7_FirstRegisteredWins ==
    (/\ last.kind = "call"
     /\ Cardinality(last.matched) >= 2
     /\ \A p \in last.matched : pools[p] # DefaultPool)
    => last.pool = firstMatching(regOrder, last.rawURL)

\* C8: with /users/.* registered with base URL U1 and /cards/.* with base URL
\* U2, and nothing else in the registry but the default pool the code creates,
\* a URL that matches only /users/.* resolves to the pool with base URL U1 and
\* a URL that matches only /cards/.* to the pool with base URL U2.
C8_DisjointPatternsResolve ==
    (/\ last.kind = "call"
     /\ {UsersPattern, CardsPattern} \subseteq last.keysBefore
     /\ last.keysBefore \subseteq {UsersPattern, CardsPattern, DefaultKey}
     /\ pools[UsersPattern].baseURL = U1
     /\ pools[CardsPattern].baseURL = U2
     /\ DefaultKey \in last.keysBefore => pools[DefaultKey] = DefaultPool)
    => /\ (MatchString(UsersPattern, last.rawURL) /\ ~MatchString(CardsPattern, last.rawURL))
             => last.rclient.baseURL = U1
       /\ (MatchString(CardsPattern, last.rawURL) /\ ~MatchString(UsersPattern, last.rawURL))
             => last.rclient.baseURL = U2

\* C9: resolving a URL that matches no registered pattern never fails, and
\* returns the default pool, which has no cache and no base URL.
C9_MissGetsDefaultPool ==
    /\ (last.kind = "panic" /\ last.in = "getPool") => last.matched # {}
    /\ (last.kind = "call" /\ last.matched = {})
          => /\ last.pool = DefaultKey
             /\ ~last.rclient.cache.has
             /\ last.rclient.baseURL = <<>>

\* C10: a registration stores under its pattern the pool built from the new
\* configuration alone, with an empty cache of the new capacity (or none), and
\* changes no other pool; so registering the same configuration again changes
\* nothing more.  And a call is answered from the cache only with an entry that
\* the pool it resolved to held before the call: what an earlier pool of the
\* pattern had admitted is never served.
C10_RegistrationReplaces ==
    [][/\ last'.kind = "register" =>
            /\ DOMAIN pools' = DOMAIN pools \cup {last'.pattern}
            /\ pools'[last'.pattern].baseURL = last'.config.BaseURL
            /\ pools'[last'.pattern].timeout = last'.config.Timeout
            /\ pools'[last'.pattern].cache =
                  [has |-> last'.config.CacheElements > 0,
                   size |-> last'.config.CacheElements,
                   items |-> <<>>]
            /\ pools'[last'.pattern].stale =
                  (last'.config.CacheElements > 0 /\ last'.config.CacheState)
            /\ \A q \in DOMAIN pools \ {last'.pattern} : pools'[q] = pools[q]
       /\ (last'.kind = "call" /\ ~last'.mocked /\ last'.hasResp /\ last'.resp.CachedContent) =>
            /\ last'.pool \in DOMAIN pools
            /\ lruContains(pools[last'.pool].cache, last'.url)
      ]_vars

\* C10 witness: a pattern whose pool held an entry is registered again with
\* another cache capacity.
C10_Witness ==
    /\ last.kind = "register"
    /\ last.prevEntries > 0
    /\ last.prevSize # last.config.CacheElements
    /\ pools[last.pattern].cache.items = <<>>

\* The entries of a cache, without their recency order.
entriesOf(cache) == {cache.items[i] : i \in 1..Len(cache.items)}

\* An expired entry stands in for a failed live response: a GET through a pool
\* with a cache and stale-serving that held an expired entry for the URL.
lastStaleApplies ==
    /\ lastIsGet /\ last.rclient.cache.has /\ last.rclient.stale
    /\ lastEntry.present /\ lastEntry.Expires <= now

C12_NetworkErrorReturned ==
    (last.kind = "call" /\ last.net.kind \in {"error", "readerr"})
    => last.err = (IF last.net.kind = "error" THEN "transport" ELSE "read")

\* C13 as stated: a redirect stopped by the transport is returned as an empty
\* body with the redirect's status and headers and a nil error, whatever the
\* pool holds.
C13_RedirectAlwaysReturned ==
    (last.kind = "call" /\ last.net.kind = "redirect")
    => /\ last.resp = Response("", last.net.code, last.net.headers, FALSE, FALSE)
       /\ last.err = "nil"

\* C13, amended: unless an expired entry is served in its place (C2), a
\* redirect stopped by the transport is returned as an empty body with the
\* redirect's status and headers and a nil error.  A connection failure is
\* never returned as one: unless an expired entry is served, it comes back with
\* status 0 and an error.  A redirect never comes back with status 0.
C13_RedirectReturned ==
    /\ (last.kind = "call" /\ last.net.kind = "redirect")
          => /\ last.hasResp /\ last.err = "nil" /\ last.resp.Code # 0
             /\ ~lastStaleApplies =>
                   last.resp = Response("", last.net.code, last.net.headers, FALSE, FALSE)
    /\ (last.kind = "call" /\ last.net.kind = "error" /\ ~last.resp.Staled)
          => last.resp.Code = 0 /\ last.err # "nil"

\* C13 witness: a redirect answered to a GET through a pool with a cache.
C13_Witness ==
    /\ lastIsGet /\ last.rclient.cache.has
    /\ last.net = netRedirect
    /\ last.resp.Code = 302 /\ last.resp.Body = "" /\ last.err = "nil"
    /\ "Location" \in DOMAIN last.resp.Headers

\* The number N of a max-age=N directive in any value of Cache-Control, 0
\* without one.
DirectiveMaxAge(headers) ==
    IF "Cache-Control" \notin DOMAIN headers THEN 0
    ELSE LET vals == headers["Cache-Control"]
             hits == {h \in (1..Len(vals)) \X (1..5) :
                         /\ h[2] + 2 <= Len(vals[h[1]])
                         /\ ToLower(vals[h[1]][h[2]]) = "max-age"
                         /\ vals[h[1]][h[2] + 1] = "="
                         /\ vals[h[1]][h[2] + 2] \in DOMAIN Digits}
         IN IF hits = {} THEN 0
            ELSE LET h == CHOOSE x \in hits : TRUE
                 IN Digits[vals[h[1]][h[2] + 2]]

\* The call that has just returned was a GET through a pool with a cache that
\* got a live 200 with a max-age directive above 0.
lastAdmits ==
    /\ lastIsGet /\ last.rclient.cache.has
    /\ last.net.kind = "ok" /\ last.net.code = 200
    /\ DirectiveMaxAge(last.net.headers) > 0

\* C14: every GET through a pool with a cache that gets a live 200 whose
\* Cache-Control carries max-age=N, N > 0, returns and leaves an entry for the
\* resolved URL with the live body and headers and expiry now + N: max-age
\* alone, before or after other directives of the same value, or in a value
\* other than the first.
C14_MaxAgeAdmitted ==
    /\ ~(last.kind = "panic" /\ last.in = "getMaxAge")
    /\ lastAdmits =>
          LET e == EntryOf(pools[last.pool].cache, last.url)
          IN /\ e.present
             /\ e.Content = last.net.body /\ e.Headers = last.net.headers
             /\ e.Expires = now + DirectiveMaxAge(last.net.headers)

\* C15: a call that is not a GET through a pool with a cache getting a live
\* 200 with a max-age directive above 0 leaves the entries of the pool's cache
\* as they were: keys, bodies, headers and expiry times.
C15_CacheChangesOnlyOnAdmission ==
    (last.kind = "call" /\ ~lastAdmits)
    => entriesOf(pools[last.pool].cache) = entriesOf(last.rclient.cache)

\* C16: a cache never holds more entries than the capacity its pool was
\* registered with, a capacity that only a registration of the pattern changes;
\* a pool registered with capacity 0 has no cache, and a call it answers (not
\* a mock fixture) has neither the served-from-cache nor the served-stale flag.
C16_CacheBounded ==
    [][/\ \A p \in DOMAIN pools' :
            /\ Len(pools'[p].cache.items) <= pools'[p].cache.size
            /\ Cardinality(lruKeys(pools'[p].cache)) = Len(pools'[p].cache.items)
            /\ ~pools'[p].cache.has => pools'[p].cache.size = 0
            /\ (last'.kind = "register" /\ last'.pattern = p)
                  => /\ pools'[p].cache.has = (last'.config.CacheElements > 0)
                     /\ pools'[p].cache.size = last'.config.CacheElements
            /\ (p \in DOMAIN pools /\ ~(last'.kind = "register" /\ last'.pattern = p))
                  => /\ pools'[p].cache.has = pools[p].cache.has
                     /\ pools'[p].cache.size = pools[p].cache.size
       /\ (last'.kind = "call" /\ ~last'.mocked /\ ~last'.rclient.cache.has)
            => ~last'.resp.CachedContent /\ ~last'.resp.Staled
      ]_vars

\* C16 witness: an admission into a full cache, which holds as many entries
\* afterwards as before.
C16_Witness ==
    /\ lastIsGet /\ last.rclient.cache.has
    /\ Len(last.rclient.cache.items) = last.rclient.cache.size
    /\ ~lruContains(last.rclient.cache, last.url)
    /\ lruContains(pools[last.pool].cache, last.url)
    /\ Len(pools[last.pool].cache.items) = last.rclient.cache.size

\* The header set of a header list, and of a header map.
pairsOfList(list) == {<<list[i].Key, list[i].Value>> : i \in 1..Len(list)}

pairsOfMap(map) == {<<k, map[k]>> : k \in DOMAIN map}

\* C17: in mock mode a call is answered by a fixture exactly when some fixture
\* has the call's method, resolved URL and body and its header map holds the
\* key/value pairs of the call's headers, in whatever order the call gave them;
\* a call that no fixture equals goes on to the cache and the network.
C17_FixtureMatching ==
    (last.kind = "call" /\ useMock)
    => /\ last.mocked <=>
             \E i \in 1..Len(mocks) :
                 /\ mocks[i].Method = last.method
                 /\ mocks[i].URL = last.url
                 /\ mocks[i].Body = last.body
                 /\ pairsOfMap(mocks[i].Headers) = pairsOfList(last.headerList)
       /\ ~last.mocked => (last.netCalls = 1 \/ last.resp.CachedContent)

\* C17 witness: a fixture registered with headers A, B answers a call that
\* gives B, A.
C17_Witness ==
    /\ last.kind = "call" /\ last.mocked
    /\ last.headerList = <<hB1, hA1>>
    /\ last.resp.Body \in {"m1", "m2"}

\* C18: a registration appends its fixture and leaves the earlier ones as they
\* were, so the fixture found for the key of any earlier fixture stays the
\* same; the list only changes by a registration or by being cleared; and a
\* call that a fixture answers gets the response of the first registered
\* fixture with its key.
C18_FirstFixtureWins ==
    [][/\ Len(mocks') > Len(mocks)
            => /\ SubSeq(mocks', 1, Len(mocks)) = mocks
               /\ Len(mocks') = Len(mocks) + 1
               /\ \A i \in 1..Len(mocks) :
                      searchMockCall(mocks[i].Method, mocks[i].URL,
                                     mocks[i].Headers, mocks[i].Body)'
                      = searchMockCall(mocks[i].Method, mocks[i].URL,
                                       mocks[i].Headers, mocks[i].Body)
       /\ mocks' # mocks => (Len(mocks') > Len(mocks) \/ mocks' = <<>>)
       /\ (last'.kind = "call" /\ last'.mocked)
            => \E i \in 1..Len(mocks) :
                  /\ mocks[i].Method = last'.method /\ mocks[i].URL = last'.url
                  /\ mocks[i].Headers = last'.headers /\ mocks[i].Body = last'.body
                  /\ last'.resp = mocks[i].Response
                  /\ \A j \in 1..(i - 1) :
                        ~(/\ mocks[j].Method = last'.method /\ mocks[j].URL = last'.url
                          /\ mocks[j].Headers = last'.headers /\ mocks[j].Body = last'.body)
      ]_vars

\* C18 witness: two fixtures with the same key and different responses are
\* registered, and a call with that key gets the response of the first.
C18_Witness ==
    /\ last.kind = "call" /\ last.mocked
    /\ Len(mocks) = 2
    /\ mocks[1].Method = mocks[2].Method /\ mocks[1].URL = mocks[2].URL
    /\ mocks[1].Headers = mocks[2].Headers /\ mocks[1].Body = mocks[2].Body
    /\ mocks[1].Response # mocks[2].Response
    /\ last.resp = mocks[1].Response

\* C19: mock mode starts on exactly when the environment is not "production";
\* it only ever changes by being turned off, and once it is off no call is
\* answered by a fixture, whatever is registered or cleared afterwards.
C19_MockModeOnlyTurnsOff ==
    /\ useMock = (env # "production")
    /\ [][/\ ~useMock => ~useMock'
          /\ env' = env
          /\ (last'.kind = "call" /\ ~useMock) => ~last'.mocked
         ]_vars

\* C19 witness: outside production, after mock mode was turned off, a call
\* equal to a registered fixture is not answered by it.
C19_Witness ==
    /\ env = "test" /\ ~useMock
    /\ last.kind = "call" /\ lastFixtures # {}
    /\ ~last.mocked /\ last.netCalls = 1

\* C20: registrations that run while calls resolve their pool are safe: no
\* goroutine in getPool reaches the map pools while another is writing it, the
\* runtime never stops the process over it, and a resolution returns a pool
\* that was registered under the key when it began or one registered while it
\* ran.
C20_RegistrySafe ==
    \A g \in Goroutines :
        /\ inflight[g].url # <<>> => (~inflight[g].raced /\ inflight[g].pc # "fatal")
        /\ (inflight[g].hasResult /\ inflight[g].key # DefaultKey)
              => <<inflight[g].key, inflight[g].result>> \in inflight[g].allowed

\* C21: the default pool is made once in the life of the process: of the
\* goroutines whose call matched no pattern, at most one has run
\* initDefaultPool, so that all of them hold the same rClient.
C21_DefaultPoolOnce ==
    Cardinality({g \in Goroutines : inflight[g].created}) <= 1

\* C22: registering fixtures from several goroutines loses none: once no
\* AddMock is under way, every fixture whose AddMock has returned since mocks
\* was last cleared is in mocks.
C22_RegistrationsKept ==
    (\A g \in Goroutines : inflight[g].pc # "append")
        => \A g \in Goroutines : \A f \in inflight[g].added :
               \E i \in 1..Len(mocks) : mocks[i] = f

\* C27: a lookup whose key another call's admission evicts between the
\* presence check and the read ends as a miss and goes on to the network: no
\* GET fails on the entry that is gone.
C27_EvictedLookupIsMiss ==
    \A g \in Goroutines : inflight[g].pc # "nilAssertion"

\* C24: no sequence of registrations, fixtures and calls ends the process:
\* every call returns to its caller with a response and an error, whatever
\* pattern was registered and whatever URL and Cache-Control header it meets.
C24_EveryCallReturns ==
    alive /\ last.kind # "panic"

\* C25: when a GET adds an entry for a new key to a full cache, the key that
\* leaves is the one that calls reached longest ago, where a call reaches a key
\* by looking it up (whether the entry was still fresh or had expired) or by
\* adding it.
C25_LeastRecentlyReachedLeaves ==
    [][(/\ last'.kind = "call" /\ last.kind # "call"
        /\ last'.rclient.cache.has
        /\ Len(last'.rclient.cache.items) = last'.rclient.cache.size
        /\ ~lruContains(last'.rclient.cache, last'.url)
        /\ lruContains(pools'[last'.pool].cache, last'.url))
          => /\ Len(recency[last'.pool]) = last'.rclient.cache.size
             /\ lruKeys(last'.rclient.cache) \ lruKeys(pools'[last'.pool].cache)
                   = {recency[last'.pool][Len(recency[last'.pool])]}
      ]_vars

\* C25 witness: a new key has been added to a full cache of two entries, and
\* the entry that stayed is older than the one that left: it had expired, and
\* a GET had looked it up after the other was added.
C25_Witness ==
    /\ last.kind = "call" /\ last.rclient.cache.has
    /\ last.rclient.cache.size = 2 /\ Len(last.rclient.cache.items) = 2
    /\ ~lruContains(last.rclient.cache, last.url)
    /\ lruContains(pools[last.pool].cache, last.url)
    /\ \E stayed \in lruKeys(last.rclient.cache) \cap lruKeys(pools[last.pool].cache) :
       \E left \in lruKeys(last.rclient.cache) \ lruKeys(pools[last.pool].cache) :
           /\ EntryOf(last.rclient.cache, stayed).Expires
                 < EntryOf(last.rclient.cache, left).Expires
           /\ EntryOf(last.rclient.cache, stayed).Expires <= now

\* C26: what a caller does to a response it was given never shows in what a
\* later call is given: no call returns the body or the header that a caller
\* wrote into an earlier response.
C26_ResponsesNotShared ==
    (last.kind = "call" /\ last.hasResp)
        => /\ last.resp.Body # "changed"
           /\ "X-Changed" \notin DOMAIN last.resp.Headers

\* C28: a GET that finds an expired entry and gets a status other than 200
\* leaves the entry as it was and, with stale-serving, returns its body as a
\* stale response after its one network attempt; a GET that finds an expired
\* entry and gets 200 with a max-age above 0 leaves in its place an entry made
\* of the live body and headers that expires max-age seconds from now; and a
\* GET that finds an entry that has not expired returns it with the cache flag
\* set and the stale flag clear.
C28_StaleUntilReplaced ==
    (lastIsGet /\ ~lastMockApplies /\ last.rclient.cache.has /\ lastEntry.present)
    => /\ (lastEntry.Expires <= now /\ last.net.kind # "none" /\ last.net.code # 200)
             => /\ EntryOf(pools[last.pool].cache, last.url) = lastEntry
                /\ last.rclient.stale
                      => /\ last.hasResp
                         /\ last.resp.Body = lastEntry.Content
                         /\ last.resp.CachedContent /\ last.resp.Staled
                         /\ last.netCalls = 1
       /\ (lastEntry.Expires <= now /\ lastAdmits)
             => EntryOf(pools[last.pool].cache, last.url)
                   = [present |-> TRUE, Content |-> last.net.body,
                      Headers |-> last.net.headers,
                      Expires |-> now + DirectiveMaxAge(last.net.headers)]
       /\ now < lastEntry.Expires
             => /\ last.hasResp
                /\ last.resp = Response(lastEntry.Content, 200, lastEntry.Headers,
                                         TRUE, FALSE)
                /\ last.netCalls = 0

\* C29: in every response of a call that no fixture answered, the stale flag
\* comes only with the cache flag, the cache flag only with status 200 and a
\* nil error, and status 0 only with an empty body, no headers and both flags
\* clear.
C29_FlagsConsistent ==
    (last.kind = "call" /\ ~last.mocked /\ last.hasResp)
    => /\ last.resp.Staled => last.resp.CachedContent
       /\ last.resp.CachedContent => (last.resp.Code = 200 /\ last.err = "nil")
       /\ last.resp.Code = 0
             => /\ last.resp.Body = "" /\ last.resp.Headers = NoHeaders
                /\ ~last.resp.CachedContent /\ ~last.resp.Staled

\* C29 witness: an expired entry is returned, with both flags, status 200 and
\* a nil error, by a GET whose network attempt failed without a response.
C29_Witness ==
    /\ last.kind = "call" /\ ~last.mocked /\ last.hasResp
    /\ last.net = netError
    /\ last.resp.Staled /\ last.resp.CachedContent
    /\ last.resp.Code = 200 /\ last.err = "nil"

\* The places a cache holds an entry for a key at.
placesOf(cache, key) == {i \in 1..Len(cache.items) : cache.items[i].key = key}

\* C23: GETs that run together through one pool leave its cache sound.  No
\* cache ever holds two entries for a key or more entries than its capacity; a
\* GET that adds its response, also over the entry that another GET for the
\* same cold URL added in the meantime, leaves exactly one entry for the URL;
\* and a key leaves a cache only when a new key is added to a full cache, and
\* then it is the least recently used one.
C23_ColdKeyAdmittedOnce ==
    [][/\ \A p \in DOMAIN pools' :
              /\ \A k \in lruKeys(pools'[p].cache) :
                     Cardinality(placesOf(pools'[p].cache, k)) = 1
              /\ Len(pools'[p].cache.items) <= pools'[p].cache.size
       /\ \A g \in Goroutines :
              (inflight[g].pc = "admit" /\ inflight'[g].admitted)
                 => Cardinality(placesOf(pools'[inflight[g].key].cache, inflight[g].url)) = 1
       /\ \A p \in DOMAIN pools :
              LET c == pools[p].cache
                  lost == lruKeys(c) \ lruKeys(pools'[p].cache)
              IN (last'.kind # "register" /\ lost # {})
                    => /\ Len(c.items) = c.size
                       /\ lost = {c.items[Len(c.items)].key}
                       /\ \E g \in Goroutines :
                              /\ inflight[g].pc = "admit" /\ inflight'[g].admitted
                              /\ inflight[g].key = p
                              /\ ~lruContains(c, inflight[g].url)
      ]_vars

\* C23 witness: two GETs for the same URL have both found the cache without an
\* entry for it, both have added their response, the second over the entry of
\* the first, and the cache holds one entry for the URL.
C23_Witness ==
    \E g \in Goroutines :
        /\ inflight[g].overlapped
        /\ \A h \in Goroutines :
               /\ inflight[h].pc = "idle" /\ inflight[h].cold /\ inflight[h].admitted
               /\ inflight[h].url = inflight[g].url /\ inflight[h].key = inflight[g].key
        /\ Cardinality(placesOf(pools[inflight[g].key].cache, inflight[g].url)) = 1

====
